---- MODULE Spec2Model ----
(***************************************************************************)
(* Mode S frame decoder and ADS-B extended-squitter payload decoder of     *)
(* adsb-index (adsb-index-api-server/src/source/mode_s).                   *)
(*                                                                         *)
(* A caller owns a forward byte buffer and calls Frame::decode on it; the  *)
(* decoder consumes bytes from the front and returns a Frame, a            *)
(* DecodeError, or unwinds with a panic.  The state is the caller's        *)
(* buffer, the buffer as it was when the last call started, and the        *)
(* outcome of the last call.                                               *)
(***************************************************************************)
EXTENDS Integers, Sequences, FiniteSets, TLC

VARIABLES buffer, input, result

vars == <<buffer, input, result>>

-----------------------------------------------------------------------------
(* Fixed-width integer arithmetic (u8 / u16 operators of the source).      *)

RECURSIVE BitAnd(_, _)
BitAnd(a, b) ==
    IF a = 0 \/ b = 0 THEN 0
    ELSE (a % 2) * (b % 2) + 2 * BitAnd(a \div 2, b \div 2)

RECURSIVE BitOr(_, _)
BitOr(a, b) ==
    IF a = 0 THEN b
    ELSE IF b = 0 THEN a
    ELSE (IF a % 2 = 1 \/ b % 2 = 1 THEN 1 ELSE 0) + 2 * BitOr(a \div 2, b \div 2)

Shr(a, n) == a \div (2 ^ n)

\* `<<` on a u8: bits shifted past bit 7 are dropped
Shl8(a, n) == (a * (2 ^ n)) % 256

\* `<<` on a u16: bits shifted past bit 15 are dropped
Shl16(a, n) == (a * (2 ^ n)) % 65536

-----------------------------------------------------------------------------
(* The forward byte reader (bytes::Buf and BufReadBytesExt).               *)

Take(b, n) == SubSeq(b, 1, n)

Drop(b, n) == SubSeq(b, n + 1, Len(b))

\* outcomes of a decoder: a value and the bytes left, an error, or a panic
Done(v, rest) == [st |-> "Ok", val |-> v, rest |-> rest]

Fail(e, rest) == [st |-> "Err", error |-> e, rest |-> rest]

Panic(msg, rest) == [st |-> "Panic", msg |-> msg, rest |-> rest]

-----------------------------------------------------------------------------
(* Constants and errors of mode_s/mod.rs.                                  *)

LENGTH_SHORT == 7

LENGTH_LONG == 14

NoDf == [kind |-> "NoDf"]

InvalidDf(value) == [kind |-> "InvalidDf", value |-> value]

Truncated(expected_length, buffer_length) ==
    [kind |-> "Truncated", expected_length |-> expected_length,
     buffer_length |-> buffer_length]

InvalidCallsign(encoding, invalid_byte) ==
    [kind |-> "InvalidCallsign", encoding |-> encoding, invalid_byte |-> invalid_byte]

-----------------------------------------------------------------------------
(* DownlinkFormat.                                                         *)

DownlinkFormat_from_u8(byte) ==
    IF BitAnd(byte, 3) = 3 THEN [st |-> "Ok", val |-> "CommD"]
    ELSE CASE byte = 0 -> [st |-> "Ok", val |-> "ShortAirAirSurveillance"]
           [] byte = 4 -> [st |-> "Ok", val |-> "SurveillanceAltitudeReply"]
           [] byte = 5 -> [st |-> "Ok", val |-> "SurveillanceIdentityReply"]
           [] byte = 11 -> [st |-> "Ok", val |-> "AllCallReply"]
           [] byte = 16 -> [st |-> "Ok", val |-> "LongAirAirSurveillance"]
           [] byte = 17 -> [st |-> "Ok", val |-> "ExtendedSquitter"]
           [] byte = 18 -> [st |-> "Ok", val |-> "ExtendedSquitterNonTransponder"]
           [] byte = 19 -> [st |-> "Ok", val |-> "MilitaryExtendedSquitter"]
           [] byte = 20 -> [st |-> "Ok", val |-> "CommBAltitudeReply"]
           [] byte = 21 -> [st |-> "Ok", val |-> "CommBIdentityReply"]
           [] OTHER -> [st |-> "Err", error |-> InvalidDf(byte)]

frame_length(df) ==
    CASE df = "ShortAirAirSurveillance" -> LENGTH_SHORT
      [] df = "SurveillanceAltitudeReply" -> LENGTH_SHORT
      [] df = "SurveillanceIdentityReply" -> LENGTH_SHORT
      [] df = "AllCallReply" -> LENGTH_SHORT
      [] df = "LongAirAirSurveillance" -> LENGTH_LONG
      [] df = "ExtendedSquitter" -> LENGTH_LONG
      [] df = "ExtendedSquitterNonTransponder" -> LENGTH_LONG
      [] df = "MilitaryExtendedSquitter" -> LENGTH_LONG
      [] df = "CommBAltitudeReply" -> LENGTH_LONG
      [] df = "CommBIdentityReply" -> LENGTH_LONG
      [] df = "CommD" -> LENGTH_SHORT

\* the 5-bit code each DownlinkFormat variant stands for (CommD: 24)
df_number(df) ==
    CASE df = "ShortAirAirSurveillance" -> 0
      [] df = "SurveillanceAltitudeReply" -> 4
      [] df = "SurveillanceIdentityReply" -> 5
      [] df = "AllCallReply" -> 11
      [] df = "LongAirAirSurveillance" -> 16
      [] df = "ExtendedSquitter" -> 17
      [] df = "ExtendedSquitterNonTransponder" -> 18
      [] df = "MilitaryExtendedSquitter" -> 19
      [] df = "CommBAltitudeReply" -> 20
      [] df = "CommBIdentityReply" -> 21
      [] df = "CommD" -> 24

-----------------------------------------------------------------------------
(* IcaoAddress (adsbee-types).                                             *)

IcaoAddress_from_bytes(bytes) ==
    [address |-> bytes[1] * 65536 + bytes[2] * 256 + bytes[3], non_icao |-> FALSE]

with_non_icao_flag(a) == [address |-> a.address, non_icao |-> TRUE]

-----------------------------------------------------------------------------
(* Reading fixed-size arrays off the buffer.                               *)

\* bytes[i] of a Rust array (indices from 0)
At(bytes, i) == bytes[i + 1]

\* buffer.get_bytes::<n>() followed by building a value from the array;
\* reading past the end of the buffer panics
WithBytes(b, n, Build(_)) ==
    IF Len(b) < n THEN Panic("buffer underflow", b)
    ELSE Done(Build(Take(b, n)), Drop(b, n))

Parity(bytes) == bytes

-----------------------------------------------------------------------------
(* Field helpers of mode_s/util and mode_s/tisb.                           *)

\* 13-bit code in the trailing bits of a two-byte field
decode_frame_aligned_altitude_or_identity_code(bytes) ==
    BitOr(Shl16(BitAnd(At(bytes, 0), 31), 8), At(bytes, 1))

\* bit k (0 = least significant) of a word
Bit(w, k) == Shr(w, k) % 2

\* 13-bit identity word C1 A1 C2 A2 C4 A4 X B1 D1 B2 D2 B4 D4 -> octal ABCD
decode_gillham_id13(w) ==
    LET a == 4 * Bit(w, 7) + 2 * Bit(w, 9) + Bit(w, 11)
        b == 4 * Bit(w, 1) + 2 * Bit(w, 3) + Bit(w, 5)
        c == 4 * Bit(w, 8) + 2 * Bit(w, 10) + Bit(w, 12)
        d == 4 * Bit(w, 0) + 2 * Bit(w, 2) + Bit(w, 4)
    IN  a * 512 + b * 64 + c * 8 + d

\* bytes   1        2        3        4        5     of a position payload
\*      aaaaTFll llllllll lllllllL LLLLLLLL LLLLLLLL
decode_frame_aligned_encoded_position(bytes) ==
    [cpr_format |-> IF BitAnd(At(bytes, 0), 4) = 0 THEN "Even" ELSE "Odd",
     cpr_position |->
        [latitude |-> BitAnd(At(bytes, 0), 3) * 32768 + At(bytes, 1) * 128
                        + Shr(At(bytes, 2), 1),
         longitude |-> BitAnd(At(bytes, 2), 1) * 65536 + At(bytes, 3) * 256
                        + At(bytes, 4)]]

UtilityMessage_from_u8_unchecked(byte) ==
    [interrogator_identifier_subfield |-> Shr(byte, 2),
     interrogator_reservation_type |-> BitAnd(byte, 3)]

\* FS (3 bits of byte 0), DR (5), UM (6), AC/ID (13) of DF 4, 5, 20, 21
decode_surveillance_reply_body(bits_6_to_8, bytes) ==
    [flight_status |-> bits_6_to_8,
     downlink_request |-> Shr(At(bytes, 0), 3),
     utility_message |-> UtilityMessage_from_u8_unchecked(
        BitOr(Shl8(BitAnd(At(bytes, 0), 7), 3), Shr(At(bytes, 1), 5))),
     code |-> decode_frame_aligned_altitude_or_identity_code(Drop(bytes, 1))]

\* VS (1 bit of byte 0), SL (3), RI (4), AC (13) of DF 0, 16
decode_air_air_surveillance_common_fields(bits_6_to_8, bytes) ==
    [vertical_status |-> IF BitAnd(bits_6_to_8, 4) = 0 THEN "Airborne" ELSE "Ground",
     sensitivity_level |-> Shr(At(bytes, 0), 5),
     reply_information |-> BitOr(Shl8(BitAnd(At(bytes, 0), 7), 1), Shr(At(bytes, 1), 7)),
     altitude_code |-> decode_frame_aligned_altitude_or_identity_code(Drop(bytes, 1))]

\* the 7-byte TIS-B ME field, kept raw
tisb_Message_decode(b) == WithBytes(b, 7, LAMBDA bytes : [data |-> bytes])

-----------------------------------------------------------------------------
(* ADS-B scalar types and message bodies (mode_s/adsb.rs).                 *)

\* b"#ABCDEFGHIJKLMNOPQRSTUVWXYZ##### ###############0123456789######"
CALLSIGN_ENCODING ==
    <<35, 65, 66, 67, 68, 69, 70, 71, 72, 73, 74, 75, 76, 77, 78, 79,
      80, 81, 82, 83, 84, 85, 86, 87, 88, 89, 90, 35, 35, 35, 35, 35,
      32, 35, 35, 35, 35, 35, 35, 35, 35, 35, 35, 35, 35, 35, 35, 35,
      48, 49, 50, 51, 52, 53, 54, 55, 56, 57, 35, 35, 35, 35, 35, 35>>

\* b'#'
HASH == At(CALLSIGN_ENCODING, 0)

\* Callsign::from_bytes with the last character masked to 5 bits
Callsign_from_bytes_mask(bytes) ==
    LET expanded ==
            << Shr(At(bytes, 0), 2),
               BitOr(Shl8(BitAnd(At(bytes, 0), 3), 4), Shr(At(bytes, 1), 4)),
               BitOr(Shl8(BitAnd(At(bytes, 1), 15), 2), Shr(At(bytes, 2), 6)),
               BitAnd(At(bytes, 2), 63),
               Shr(At(bytes, 3), 2),
               BitOr(Shl8(BitAnd(At(bytes, 3), 3), 4), Shr(At(bytes, 4), 4)),
               BitOr(Shl8(BitAnd(At(bytes, 4), 15), 2), Shr(At(bytes, 5), 6)),
               BitAnd(At(bytes, 5), 31) >>
        resolved == [i \in 1..8 |-> At(CALLSIGN_ENCODING, expanded[i])]
        invalid == {i \in 1..8 : resolved[i] = HASH}
    IN  IF invalid # {}
        THEN LET first == CHOOSE i \in invalid : \A k \in invalid : i <= k
             IN  [st |-> "Err", error |-> InvalidCallsign(bytes, resolved[first])]
        ELSE [st |-> "Ok", val |-> [characters |-> resolved]]

\* Callsign::from_bytes with the second character's two high bits shifted by
\* 2 instead of 4
Callsign_from_bytes_shift(bytes) ==
    LET expanded ==
            << Shr(At(bytes, 0), 2),
               BitOr(Shl8(BitAnd(At(bytes, 0), 3), 2), Shr(At(bytes, 1), 4)),
               BitOr(Shl8(BitAnd(At(bytes, 1), 15), 2), Shr(At(bytes, 2), 6)),
               BitAnd(At(bytes, 2), 63),
               Shr(At(bytes, 3), 2),
               BitOr(Shl8(BitAnd(At(bytes, 3), 3), 4), Shr(At(bytes, 4), 4)),
               BitOr(Shl8(BitAnd(At(bytes, 4), 15), 2), Shr(At(bytes, 5), 6)),
               BitAnd(At(bytes, 5), 63) >>
        resolved == [i \in 1..8 |-> At(CALLSIGN_ENCODING, expanded[i])]
        invalid == {i \in 1..8 : resolved[i] = HASH}
    IN  IF invalid # {}
        THEN LET first == CHOOSE i \in invalid : \A k \in invalid : i <= k
             IN  [st |-> "Err", error |-> InvalidCallsign(bytes, resolved[first])]
        ELSE [st |-> "Ok", val |-> [characters |-> resolved]]

Callsign_from_bytes(bytes) ==
    LET expanded ==
            << Shr(At(bytes, 0), 2),
               BitOr(Shl8(BitAnd(At(bytes, 0), 3), 4), Shr(At(bytes, 1), 4)),
               BitOr(Shl8(BitAnd(At(bytes, 1), 15), 2), Shr(At(bytes, 2), 6)),
               BitAnd(At(bytes, 2), 63),
               Shr(At(bytes, 3), 2),
               BitOr(Shl8(BitAnd(At(bytes, 3), 3), 4), Shr(At(bytes, 4), 4)),
               BitOr(Shl8(BitAnd(At(bytes, 4), 15), 2), Shr(At(bytes, 5), 6)),
               BitAnd(At(bytes, 5), 63) >>
        resolved == [i \in 1..8 |-> At(CALLSIGN_ENCODING, expanded[i])]
        invalid == {i \in 1..8 : resolved[i] = HASH}
    IN  IF invalid # {}
        THEN LET first == CHOOSE i \in invalid : \A k \in invalid : i <= k
             IN  [st |-> "Err", error |-> InvalidCallsign(bytes, resolved[first])]
        ELSE [st |-> "Ok", val |-> [characters |-> resolved]]

\* Callsign::LENGTH
Callsign_LENGTH == 8

\* char::is_ascii_uppercase || char::is_ascii_digit || ' ', on a code point
valid_callsign_char(c) == c \in 65..90 \/ c \in 48..57 \/ c = 32

\* bytes of the UTF-8 encoding of a code point below U+0800
len_utf8(c) == IF c < 128 THEN 1 ELSE 2

\* str::len: the length of a string in bytes; s is its sequence of chars
RECURSIVE str_len(_)
str_len(s) == IF s = <<>> THEN 0 ELSE len_utf8(Head(s)) + str_len(Tail(s))

\* InvalidCallsign::InvalidChar and InvalidCallsign::InvalidLength
InvalidChar(position, character) ==
    [kind |-> "InvalidChar", position |-> position, character |-> character]

InvalidLength(n) == [kind |-> "InvalidLength", n |-> n]

\* <Callsign as FromStr>::from_str
Callsign_from_str(s) ==
    LET n == str_len(s) IN
    IF n > Callsign_LENGTH THEN [st |-> "Err", error |-> InvalidLength(n)]
    ELSE
    LET invalid == {i \in 1..Len(s) : ~valid_callsign_char(s[i])} IN
    IF invalid # {}
    THEN LET first == CHOOSE i \in invalid : \A k \in invalid : i <= k
         IN  [st |-> "Err", error |-> InvalidChar(first - 1, s[first])]
    ELSE [st |-> "Ok",
          val |-> [characters |->
                    [i \in 1..Callsign_LENGTH |-> IF i <= Len(s) THEN s[i] ELSE 0]]]

WakeVortexCategory_from_type_code_and_category_unchecked(type_code, category) ==
    LET tc == <<type_code, category>> IN
    CASE category = 0 -> [variant |-> "NoCategoryInformation", type_code |-> type_code]
      [] tc = <<2, 1>> -> [variant |-> "SurfaceEmergencyVehicle"]
      [] tc = <<2, 3>> -> [variant |-> "SurfaceServiceVehicle"]
      [] type_code = 2 /\ category \in 4..7 ->
            [variant |-> "GroundObstruction", category |-> category]
      [] tc = <<3, 1>> -> [variant |-> "GliderSailplane"]
      [] tc = <<3, 2>> -> [variant |-> "LighterThanAir"]
      [] tc = <<3, 3>> -> [variant |-> "ParachutistSkydiver"]
      [] tc = <<3, 4>> -> [variant |-> "UltralightHangGliderParaGlider"]
      [] tc = <<3, 6>> -> [variant |-> "UnmannedAerialVehicle"]
      [] tc = <<3, 7>> -> [variant |-> "SpaceTransatmospherricVehicle"]
      [] tc = <<4, 1>> -> [variant |-> "Light"]
      [] tc = <<4, 2>> -> [variant |-> "Medium1"]
      [] tc = <<4, 3>> -> [variant |-> "Medium2"]
      [] tc = <<4, 4>> -> [variant |-> "HighVortexAirrcraft"]
      [] tc = <<4, 5>> -> [variant |-> "Heavy"]
      [] tc = <<4, 6>> -> [variant |-> "HighPerformance"]
      [] tc = <<4, 7>> -> [variant |-> "Rotorcraft"]
      [] OTHER -> [variant |-> "Reserved", type_code |-> type_code, category |-> category]

AircraftIdentification_decode(b, type_code, bits_6_to_8) ==
    IF Len(b) < 6 THEN Panic("buffer underflow", b)
    ELSE LET callsign == Callsign_from_bytes(Take(b, 6)) IN
         IF callsign.st = "Err" THEN Fail(callsign.error, Drop(b, 6))
         ELSE Done([wake_vortex_category |->
                        WakeVortexCategory_from_type_code_and_category_unchecked(
                            type_code, bits_6_to_8),
                    callsign |-> callsign.val],
                   Drop(b, 6))

SurfacePosition_decode(b, type_code, bits_6_to_8) ==
    WithBytes(b, 6, LAMBDA bytes :
        LET pos == decode_frame_aligned_encoded_position(Drop(bytes, 1)) IN
        [ground_speed |-> BitOr(Shl8(bits_6_to_8, 4), Shr(At(bytes, 0), 4)),
         ground_track |->
            IF BitAnd(At(bytes, 0), 8) = 0 THEN <<>>
            ELSE << BitOr(Shl8(At(bytes, 0), 5), Shr(At(bytes, 1), 4)) >>,
         time |-> BitAnd(At(bytes, 1), 8) # 0,
         cpr_format |-> pos.cpr_format,
         cpr_position |-> pos.cpr_position])

AltitudeType_from_type_code(type_code) ==
    CASE type_code \in 9..18 -> "Barometric"
      [] type_code \in 20..22 -> "Gnss"
      [] OTHER -> "panic"   \* panic!("invalid type code"): no caller passes one

AirbornePosition_decode(b, type_code, bits_6_to_8) ==
    WithBytes(b, 6, LAMBDA bytes :
        LET pos == decode_frame_aligned_encoded_position(Drop(bytes, 1)) IN
        [altitude_type |-> AltitudeType_from_type_code(type_code),
         surveillance_status |-> Shr(bits_6_to_8, 1),
         single_antenna_flag |-> BitAnd(bits_6_to_8, 1) = 1,
         encoded_altitude |-> BitOr(Shl8(At(bytes, 0), 4), Shr(At(bytes, 1), 4)),
         time |-> BitAnd(At(bytes, 2), 8) # 0,
         cpr_format |-> pos.cpr_format,
         cpr_position |-> pos.cpr_position])

\* Option<T>: None is <<>>, Some(v) is <<v>>
Some(v) == <<v>>

None == <<>>

\* the closure `velocity` of AirborneVelocity::decode
velocity(v) == IF v # 0 THEN Some(v) ELSE None

AirborneVelocity_decode(b, bits_6_to_8) ==
    LET sub_type == bits_6_to_8
        supersonic == sub_type = 3 \/ sub_type = 4
    IN
    IF Len(b) < 6 THEN Panic("buffer underflow", b)
    ELSE IF sub_type \notin 1..4 THEN Panic("Invalid sub type for AirborneVelocity", Drop(b, 6))
    ELSE WithBytes(b, 6, LAMBDA bytes :
        LET d == BitAnd(At(bytes, 0), 4) # 0
            e == BitOr(Shl16(BitAnd(At(bytes, 0), 192), 8), At(bytes, 1))
            f == BitAnd(At(bytes, 2), 64) # 0
            g == BitOr(Shl16(BitAnd(At(bytes, 2), 127), 3), Shr(At(bytes, 3), 5))
            j == BitOr(Shl16(At(bytes, 3), 6), Shr(At(bytes, 4), 2))
            m == BitAnd(At(bytes, 5), 127)
        IN
        [supersonic |-> supersonic,
         intent_change_flag |-> BitAnd(At(bytes, 0), 128) # 0,
         ifr_capability_flag |-> BitAnd(At(bytes, 0), 64) # 0,
         navigation_uncertainty_category |-> Shr(BitAnd(At(bytes, 0), 56), 3),
         velocity_type |->
            IF sub_type \in {1, 2}
            THEN [variant |-> "GroundSpeed",
                  direction_east_west |-> IF d THEN "EastToWest" ELSE "WestToEast",
                  velocity_east_west |-> velocity(e),
                  direction_north_south |-> IF f THEN "NorthToSouth" ELSE "SouthToNorth",
                  velocity_north_south |-> velocity(g)]
            ELSE [variant |-> "Airspeed",
                  magnetic_heading |-> IF d THEN Some(e) ELSE None,
                  airspeed_type |-> IF f THEN "True" ELSE "Indicated",
                  airspeed_value |-> velocity(g)],
         vertical_rate |->
            [source |-> IF BitAnd(At(bytes, 3), 16) = 0 THEN "Gnss" ELSE "Barometric",
             sign |-> IF BitAnd(At(bytes, 3), 8) = 0 THEN "Up" ELSE "Down",
             value |-> IF j # 0 THEN Some(j) ELSE None],
         turn_indicator |-> BitAnd(At(bytes, 4), 3),
         altitude_difference |->
            [sign |-> IF BitAnd(At(bytes, 5), 128) = 0
                      THEN "GnssAboveBarometric" ELSE "GnssBelowBarometric",
             value |-> IF m # 0 THEN Some(m) ELSE None]])

AircraftStatus_decode(b, bits_6_to_8) ==
    LET sub_type == bits_6_to_8 IN
    CASE sub_type = 1 ->
            \* two bytes, then buffer.get_u32(): the u32 is kept as its four
            \* big-endian bytes
            WithBytes(b, 6, LAMBDA bytes :
                [variant |-> "EmergencyPriorityStatusAndModeACode",
                 emergency_priority_status |-> Shr(At(bytes, 0), 5),
                 mode_a_code |-> decode_gillham_id13(
                    decode_frame_aligned_altitude_or_identity_code(Take(bytes, 2))),
                 reserved |-> Drop(bytes, 2)])
      [] sub_type = 2 ->
            Panic("not yet implemented: 1090ES TCAS Resolution Advisory (RA) Broadcast Message (Subtype=2)", b)
      [] OTHER -> Panic("not yet implemented", b)

TargetStateAndStatusInformation_decode(b, bit_8) ==
    WithBytes(b, 6, LAMBDA bytes :
        [sil_supplement |-> IF bit_8 THEN "PerSample" ELSE "PerHour",
         selected_altitude_type |->
            IF BitAnd(At(bytes, 0), 64) = 0 THEN "Fms" ELSE "McpFcu"])

AircraftOperationalStatus_decode(b, bits_6_to_8) ==
    LET sub_type == bits_6_to_8 IN
    CASE sub_type = 0 -> Done([variant |-> "Airborne"], b)
      [] sub_type = 1 -> Done([variant |-> "Surface"], b)
      [] OTHER -> WithBytes(b, 6, LAMBDA bytes :
                    [variant |-> "Reserved", sub_type |-> sub_type, data |-> bytes])

SurfaceSystemMessage_decode(b, bits_6_to_8) ==
    LET sub_type == bits_6_to_8 IN
    CASE sub_type = 1 -> WithBytes(b, 6, LAMBDA bytes :
                    [variant |-> "MultilaterationSystemStatus", data |-> bytes])
      [] OTHER -> WithBytes(b, 6, LAMBDA bytes :
                    [variant |-> "Reserved", sub_type |-> sub_type, data |-> bytes])

\* wrap the body a decoder returned into a tagged variant
Tagged(variant, r) ==
    IF r.st = "Ok" THEN Done([variant |-> variant, body |-> r.val], r.rest) ELSE r

\* the closure `reserved` of Message::decode
reserved(b, type_code, bits_6_to_8) ==
    WithBytes(b, 6, LAMBDA bytes :
        [variant |-> "Reserved", type_code |-> type_code, sub_type |-> bits_6_to_8,
         data |-> bytes])

adsb_Message_decode(buf) ==
    IF Len(buf) < 1 THEN Panic("buffer underflow", buf)
    ELSE
    LET byte_0 == Head(buf)
        b == Tail(buf)
        type_code == Shr(byte_0, 3)
        bits_6_to_8 == BitAnd(byte_0, 7)
    IN
    CASE type_code = 0 -> Panic("not yet implemented: no position", b)
      [] type_code \in 1..4 ->
            Tagged("AircraftIdentification",
                   AircraftIdentification_decode(b, type_code, bits_6_to_8))
      [] type_code \in 5..8 ->
            Tagged("SurfacePosition", SurfacePosition_decode(b, type_code, bits_6_to_8))
      [] type_code \in 9..18 \/ type_code \in 20..22 ->
            Tagged("AirbornePosition", AirbornePosition_decode(b, type_code, bits_6_to_8))
      [] type_code = 19 ->
            IF bits_6_to_8 \in 1..4
            THEN Tagged("AirborneVelocity", AirborneVelocity_decode(b, bits_6_to_8))
            ELSE reserved(b, type_code, bits_6_to_8)
      [] type_code = 23 ->
            IF bits_6_to_8 = 0
            THEN WithBytes(b, 6, LAMBDA bytes : [variant |-> "TestMessage", data |-> bytes])
            ELSE reserved(b, type_code, bits_6_to_8)
      [] type_code = 24 ->
            Tagged("SurfaceSystemMessage", SurfaceSystemMessage_decode(b, bits_6_to_8))
      [] type_code = 27 ->
            Panic("not yet implemented: reserved for trajectory change message", b)
      [] type_code = 28 ->
            Tagged("AircraftStatus", AircraftStatus_decode(b, bits_6_to_8))
      [] type_code = 29 ->
            LET sub_type == Shr(bits_6_to_8, 1) IN
            IF sub_type = 1
            THEN Tagged("TargetStateAndStatusInformation",
                        TargetStateAndStatusInformation_decode(
                            b, BitAnd(bits_6_to_8, 1) # 0))
            ELSE reserved(b, type_code, bits_6_to_8)
      [] type_code = 31 ->
            Tagged("AircraftOperationalStatus",
                   AircraftOperationalStatus_decode(b, bits_6_to_8))
      [] OTHER -> reserved(b, type_code, bits_6_to_8)

-----------------------------------------------------------------------------
(* Frame bodies (mode_s/mod.rs).                                           *)

ShortAirAirSurveillance_decode(b, bits_6_to_8) ==
    WithBytes(b, 6, LAMBDA bytes :
        LET common == decode_air_air_surveillance_common_fields(
                        bits_6_to_8, Take(bytes, 3)) IN
        [vertical_status |-> common.vertical_status,
         cross_link_capability |-> BitAnd(bits_6_to_8, 2) # 0,
         sensitivity_level |-> common.sensitivity_level,
         reply_information |-> common.reply_information,
         altitude_code |-> common.altitude_code,
         address_parity |-> Parity(Drop(bytes, 3))])

LongAirAirSurveillance_decode(b, bits_6_to_8) ==
    WithBytes(b, 13, LAMBDA bytes :
        LET common == decode_air_air_surveillance_common_fields(
                        bits_6_to_8, Take(bytes, 3)) IN
        [vertical_status |-> common.vertical_status,
         sensitivity_level |-> common.sensitivity_level,
         reply_information |-> common.reply_information,
         altitude_code |-> common.altitude_code,
         message |-> SubSeq(bytes, 4, 10),
         address_parity |-> Parity(Drop(bytes, 10))])

\* SurveillanceAltitudeReply::decode and SurveillanceIdentityReply::decode
SurveillanceReply_decode(b, bits_6_to_8) ==
    WithBytes(b, 6, LAMBDA bytes :
        LET body == decode_surveillance_reply_body(bits_6_to_8, Take(bytes, 3)) IN
        [flight_status |-> body.flight_status,
         downlink_request |-> body.downlink_request,
         utility_message |-> body.utility_message,
         code |-> body.code,
         address_parity |-> Parity(Drop(bytes, 3))])

\* CommBAltitudeReply::decode and CommBIdentityReply::decode
CommBReply_decode(b, bits_6_to_8) ==
    WithBytes(b, 13, LAMBDA bytes :
        LET body == decode_surveillance_reply_body(bits_6_to_8, Take(bytes, 3)) IN
        [flight_status |-> body.flight_status,
         downlink_request |-> body.downlink_request,
         utility_message |-> body.utility_message,
         code |-> body.code,
         message |-> SubSeq(bytes, 4, 10),
         address_parity |-> Parity(Drop(bytes, 10))])

AllCallReply_decode(b, bits_6_to_8) ==
    WithBytes(b, 6, LAMBDA bytes :
        [capability |-> bits_6_to_8,
         address_announced |-> IcaoAddress_from_bytes(Take(bytes, 3)),
         parity_interrogator |-> Parity(Drop(bytes, 3))])

\* address_announced, then a message decoded by Msg, then (when with_parity)
\* the three parity bytes: the field order of the struct literals
AddressedMessage(b, non_icao, Msg(_), with_parity, Build(_, _, _)) ==
    IF Len(b) < 3 THEN Panic("buffer underflow", b)
    ELSE
    LET from_bytes == IcaoAddress_from_bytes(Take(b, 3))
        address_announced == IF non_icao THEN with_non_icao_flag(from_bytes)
                             ELSE from_bytes
        message == Msg(Drop(b, 3))
    IN
    IF message.st # "Ok" THEN message
    ELSE IF ~with_parity
         THEN Done(Build(address_announced, message.val, <<>>), message.rest)
         ELSE WithBytes(message.rest, 3, LAMBDA parity :
                Build(address_announced, message.val, Parity(parity)))

ExtendedSquitter_decode(b, bits_6_to_8) ==
    AddressedMessage(b, FALSE, adsb_Message_decode, TRUE,
        LAMBDA address, message, parity :
            [capabilities |-> bits_6_to_8,
             address_announced |-> address,
             adsb_message |-> message,
             parity_interrogator |-> parity])

\* data: [u8; 7] and parity of code formats 4, 6 and 7
RawNonTransponder(b, variant) ==
    WithBytes(b, 10, LAMBDA bytes :
        [variant |-> variant, data |-> Take(bytes, 7),
         parity_interrogator |-> Parity(Drop(bytes, 7))])

ExtendedSquitterNonTransponder_decode(b, bits_6_to_8) ==
    LET code_format == bits_6_to_8
        Adsb(variant, non_icao) ==
            AddressedMessage(b, non_icao, adsb_Message_decode, TRUE,
                LAMBDA address, message, parity :
                    [variant |-> variant, address_announced |-> address,
                     adsb_message |-> message, parity_interrogator |-> parity])
        Tisb(variant, non_icao) ==
            AddressedMessage(b, non_icao, tisb_Message_decode, TRUE,
                LAMBDA address, message, parity :
                    [variant |-> variant, address_announced |-> address,
                     tisb_message |-> message, parity_interrogator |-> parity])
    IN
    CASE code_format = 0 -> Adsb("AdsbWithIcaoAddress", FALSE)
      [] code_format = 1 -> Adsb("AdsbWithNonIcaoAddress", TRUE)
      [] code_format = 2 -> Tisb("TisbWithIcaoAddress1", FALSE)
      [] code_format = 3 -> Tisb("TisbWithIcaoAddress1", FALSE)
      [] code_format = 4 -> RawNonTransponder(b, "TisbAndAdsrManagement")
      [] code_format = 5 -> Tisb("TisbWithIcaoAddress1", TRUE)
      [] code_format = 6 -> RawNonTransponder(b, "AdsrRebroadcast")
      [] code_format = 7 -> RawNonTransponder(b, "Reserved")
      [] OTHER -> Panic("invalid CodeFormat", b)

ExtendedSquitterNonTransponder_code_format(f) ==
    CASE f.variant = "AdsbWithIcaoAddress" -> 0
      [] f.variant = "AdsbWithNonIcaoAddress" -> 1
      [] f.variant = "TisbWithIcaoAddress1" -> 2
      [] f.variant = "TisbWithIcaoAddress2" -> 3
      [] f.variant = "TisbAndAdsrManagement" -> 4
      [] f.variant = "TisbWithNonIcaoAddress" -> 5
      [] f.variant = "AdsrRebroadcast" -> 6
      [] f.variant = "Reserved" -> 7

MilitaryExtendedSquitter_decode(b, bits_6_to_8) ==
    IF bits_6_to_8 = 0
    THEN AddressedMessage(b, FALSE, adsb_Message_decode, FALSE,
            LAMBDA address, message, parity :
                [variant |-> "Adsb", address_announced |-> address,
                 adsb_message |-> message])
    ELSE WithBytes(b, 13, LAMBDA bytes :
            [variant |-> "Reserved", application_field |-> bits_6_to_8,
             data |-> bytes])

-----------------------------------------------------------------------------
(* Frame.                                                                  *)

Frame_decode(buf) ==
    LET buffer_length == Len(buf) IN
    IF buffer_length = 0 THEN Fail(NoDf, buf)
    ELSE
    LET byte_0 == Head(buf)
        b == Tail(buf)
        bits_1_to_5 == Shr(byte_0, 3)
        df == DownlinkFormat_from_u8(bits_1_to_5)
        bits_6_to_8 == BitAnd(byte_0, 7)
    IN
    IF df.st = "Err" THEN Fail(df.error, b)
    ELSE
    LET expected_length == frame_length(df.val) IN
    IF buffer_length < expected_length
    THEN Fail(Truncated(expected_length, buffer_length), b)
    ELSE
    CASE df.val = "ShortAirAirSurveillance" ->
            Tagged(df.val, ShortAirAirSurveillance_decode(b, bits_6_to_8))
      [] df.val = "SurveillanceAltitudeReply" ->
            Tagged(df.val, SurveillanceReply_decode(b, bits_6_to_8))
      [] df.val = "SurveillanceIdentityReply" ->
            Tagged(df.val, SurveillanceReply_decode(b, bits_6_to_8))
      [] df.val = "AllCallReply" ->
            Tagged(df.val, AllCallReply_decode(b, bits_6_to_8))
      [] df.val = "LongAirAirSurveillance" ->
            Tagged(df.val, LongAirAirSurveillance_decode(b, bits_6_to_8))
      [] df.val = "ExtendedSquitter" ->
            Tagged(df.val, ExtendedSquitter_decode(b, bits_6_to_8))
      [] df.val = "ExtendedSquitterNonTransponder" ->
            Tagged(df.val, ExtendedSquitterNonTransponder_decode(b, bits_6_to_8))
      [] df.val = "MilitaryExtendedSquitter" ->
            Tagged(df.val, MilitaryExtendedSquitter_decode(b, bits_6_to_8))
      [] df.val = "CommBAltitudeReply" ->
            Tagged(df.val, CommBReply_decode(b, bits_6_to_8))
      [] df.val = "CommBIdentityReply" ->
            Tagged(df.val, CommBReply_decode(b, bits_6_to_8))
      [] df.val = "CommD" -> Done([variant |-> "CommD"], b)

\* Frame::downlink_format
downlink_format(frame) == frame.variant

\* Frame::length
length(frame) == frame_length(downlink_format(frame))

-----------------------------------------------------------------------------
(* The buffers a caller hands to the decoder.                              *)

\* number of distinct 6-byte ME payload patterns tried
NumPayloads == 5

\* most frames laid back to back in one buffer
MaxFrames == 2

AddressBytes == <<75, 169, 18>>

ParityBytes == <<161, 178, 195>>

Payload(i) ==
    CASE i = 1 -> <<44, 195, 113, 195, 44, 224>>
      [] i = 2 -> <<0, 0, 0, 0, 0, 0>>
      [] i = 3 -> <<255, 255, 255, 255, 255, 255>>
      [] i = 4 -> <<133, 16, 194, 56, 4, 129>>
      [] i = 5 -> <<91, 145, 72, 175, 54, 231>>
      [] OTHER -> [k \in 1..6 |-> (i * 37 + k * 53) % 256]

\* 14 bytes: byte 0, announced address, ME type byte, ME payload, parity
LongFrame(byte_0, me_0, i) ==
    <<byte_0>> \o AddressBytes \o <<me_0>> \o Payload(i) \o ParityBytes

\* every first byte, over every length from empty to a long frame
DispatchInputs ==
    {Take(LongFrame(byte_0, 88, 1), n) : byte_0 \in 0..255, n \in 0..LENGTH_LONG}

\* DF 17 (CA 5), DF 18 (CF 0..7) and DF 19 (AF 0) with every ME type byte
ExtendedSquitterInputs ==
    {LongFrame(byte_0, me_0, i) :
        byte_0 \in {141} \cup 144..152, me_0 \in 0..255, i \in 1..NumPayloads}

\* one well-formed frame of each kind
SampleFrames ==
    {Take(LongFrame(byte_0, 88, 4), LENGTH_SHORT) : byte_0 \in {2, 32, 40, 93, 192}}
    \cup {LongFrame(byte_0, me_0, 4) :
            byte_0 \in {128, 141, 146, 160, 168}, me_0 \in {153, 248}}

RECURSIVE Streams(_)
Streams(n) ==
    IF n = 0 THEN {<<>>}
    ELSE {f \o s : f \in SampleFrames, s \in Streams(n - 1)}

StreamInputs == UNION {Streams(n) : n \in 2..MaxFrames}

InputBuffers == DispatchInputs \cup ExtendedSquitterInputs \cup StreamInputs

-----------------------------------------------------------------------------
(* The caller's loop.                                                      *)

Init ==
    /\ buffer \in InputBuffers
    /\ input = <<>>
    /\ result = [st |-> "None"]

\* what Frame::decode returned, without the buffer it left
Outcome(r) == [f \in DOMAIN r \ {"rest"} |-> r[f]]

\* one call of Frame::decode(&mut buffer); a panic ends the process
Decode ==
    /\ result.st # "Panic"
    /\ LET r == Frame_decode(buffer) IN
        /\ buffer' = r.rest
        /\ input' = buffer
        /\ result' = Outcome(r)

Next == Decode

Spec == Init /\ [][Next]_vars

-----------------------------------------------------------------------------
(* What the last call was given and what it gave back.                     *)

Called == result.st # "None"

Returned == result.st = "Ok"

\* the 5-bit downlink format in the upper bits of the first input byte
InputDf == Shr(input[1], 3)

\* the ADS-B message of the returned frame, when the frame carries one
HasAdsbMessage ==
    /\ Returned
    /\ "body" \in DOMAIN result.val
    /\ "adsb_message" \in DOMAIN result.val.body

AdsbMessage == result.val.body.adsb_message

\* the last call was given a whole DF 17 frame with capability 5 (0x8D)
GivenExtendedSquitter == Called /\ Len(input) = LENGTH_LONG /\ input[1] = 141

\* type code and sub-type of the ME field of a long input frame
MeTypeCode == Shr(input[5], 3)

MeSubType == BitAnd(input[5], 7)

RejectedCallsign == result.st = "Err" /\ result.error.kind = "InvalidCallsign"

\* an Option field is None or holds a value of S
OptionIn(o, S) == o = None \/ o[1] \in S

-----------------------------------------------------------------------------
(* Claims.                                                                 *)

\* C1: decoding a buffer of exactly 7 or exactly 14 bytes returns a Frame or
\* one of the errors NoDf, InvalidDf, Truncated, InvalidCallsign; it never
\* panics.
C1_DecodeNeverPanics ==
    (Called /\ Len(input) \in {LENGTH_SHORT, LENGTH_LONG}) =>
        \/ result.st = "Ok"
        \/ /\ result.st = "Err"
           /\ result.error.kind \in {"NoDf", "InvalidDf", "Truncated", "InvalidCallsign"}

\* C2: a buffer of at least 7 bytes whose byte 0 is >= 0xC0 decodes to CommD,
\* and no buffer whose byte 0 is < 0xC0 decodes to CommD.
C2_CommDByTopTwoBits ==
    (Called /\ Len(input) >= 1) =>
        /\ (Len(input) >= LENGTH_SHORT /\ input[1] >= 192) =>
                (Returned /\ result.val.variant = "CommD")
        /\ input[1] < 192 => ~(Returned /\ result.val.variant = "CommD")

\* the downlink formats the decoder knows by their 5-bit number
NumberedFormats == {0, 4, 5, 11, 16, 17, 18, 19, 20, 21}

\* C3: when the upper 5 bits of byte 0 are one of 0, 4, 5, 11, 16..21 and the
\* decode succeeds, the frame is the variant of that format, so that
\* frame.downlink_format() names the format of byte 0.
C3_VariantOfFormat ==
    (Called /\ Len(input) >= 1 /\ InputDf \in NumberedFormats /\ Returned) =>
        df_number(downlink_format(result.val)) = InputDf

\* C4: a non-empty buffer whose 5-bit downlink format is one of 1, 2, 3, 6..10,
\* 12..15 fails with InvalidDf carrying that format, whatever its length.
C4_InvalidDfValue ==
    (Called /\ Len(input) >= 1
        /\ InputDf \in {1, 2, 3, 6, 7, 8, 9, 10, 12, 13, 14, 15}) =>
        result = [st |-> "Err", error |-> InvalidDf(InputDf)]

\* the length the formats are said to have: 7 for DF 0, 4, 5, 11 and CommD
\* (byte 0 >= 0xC0), 14 for DF 16..21
StatedLength(byte_0) ==
    IF byte_0 >= 192 \/ Shr(byte_0, 3) \in {0, 4, 5, 11}
    THEN LENGTH_SHORT ELSE LENGTH_LONG

\* C5: an empty buffer fails with NoDf; a non-empty buffer of a valid format
\* that is shorter than the format's length fails with Truncated carrying that
\* length and the buffer's length, and only byte 0 has been read from it.
C5_NoDfAndTruncated ==
    Called =>
        /\ input = <<>> => result = [st |-> "Err", error |-> NoDf]
        /\ (/\ Len(input) >= 1
            /\ (input[1] >= 192 \/ InputDf \in NumberedFormats)
            /\ Len(input) < StatedLength(input[1])) =>
                /\ result = [st |-> "Err",
                             error |-> Truncated(StatedLength(input[1]), Len(input))]
                /\ buffer = Tail(input)

\* C6: after a successful decode the buffer has advanced by exactly
\* frame.length() bytes, so the next decode starts at the next frame.
C6_AdvancesByFrameLength ==
    Returned => buffer = Drop(input, length(result.val))

\* the variant the dispatch table gives a type code and sub-type
TableVariant(type_code, sub_type) ==
    CASE type_code \in 1..4 -> "AircraftIdentification"
      [] type_code \in 5..8 -> "SurfacePosition"
      [] type_code \in 9..18 \/ type_code \in 20..22 -> "AirbornePosition"
      [] type_code = 19 /\ sub_type \in 1..4 -> "AirborneVelocity"
      [] type_code = 23 /\ sub_type = 0 -> "TestMessage"
      [] type_code = 24 -> "SurfaceSystemMessage"
      [] type_code = 29 /\ Shr(sub_type, 1) = 1 -> "TargetStateAndStatusInformation"
      [] type_code = 31 -> "AircraftOperationalStatus"
      [] OTHER -> "Reserved"

\* C7: the ADS-B message of a DF 17 frame is the variant the table gives the
\* type code and sub-type of the first ME byte; every other pair yields
\* Reserved with the type code and sub-type read and the 6 bytes that follow.
C7_DispatchTable ==
    (GivenExtendedSquitter /\ ~RejectedCallsign) =>
        /\ HasAdsbMessage
        /\ AdsbMessage.variant = TableVariant(MeTypeCode, MeSubType)
        /\ AdsbMessage.variant = "Reserved" =>
                /\ AdsbMessage.type_code = MeTypeCode
                /\ AdsbMessage.sub_type = MeSubType
                /\ AdsbMessage.data = SubSeq(input, 6, 11)

\* C8: an ME payload of type code 0, type code 27 or type code 28 with a
\* sub-type other than 1 does not abort the decode of its DF 17 / DF 18 frame:
\* the frame decodes successfully and carries a message.
C8_UnfinishedPayloadsDecode ==
    (/\ Called /\ Len(input) = LENGTH_LONG /\ input[1] \in {141, 144, 145}
     /\ \/ MeTypeCode \in {0, 27}
        \/ MeTypeCode = 28 /\ MeSubType # 1) =>
        HasAdsbMessage

\* C9: in every decoded ADS-B message each scalar field lies within the bit
\* width of its type.
C9_FieldsWithinWidth ==
    HasAdsbMessage =>
        LET m == AdsbMessage IN
        /\ m.variant = "AirborneVelocity" =>
            /\ m.body.navigation_uncertainty_category \in 0..7
            /\ m.body.turn_indicator \in 0..3
            /\ OptionIn(m.body.vertical_rate.value, 1..511)
            /\ OptionIn(m.body.altitude_difference.value, 1..127)
            /\ m.body.velocity_type.variant = "GroundSpeed" =>
                /\ OptionIn(m.body.velocity_type.velocity_east_west, 1..1023)
                /\ OptionIn(m.body.velocity_type.velocity_north_south, 1..1023)
            /\ m.body.velocity_type.variant = "Airspeed" =>
                /\ OptionIn(m.body.velocity_type.magnetic_heading, 0..1023)
                /\ OptionIn(m.body.velocity_type.airspeed_value, 1..1023)
        /\ m.variant = "SurfacePosition" =>
            /\ m.body.ground_speed \in 0..127
            /\ OptionIn(m.body.ground_track, 0..127)
        /\ m.variant = "AirbornePosition" =>
            /\ m.body.encoded_altitude \in 0..4095
            /\ m.body.surveillance_status \in 0..3
        /\ m.variant = "AircraftStatus" =>
            m.body.emergency_priority_status \in 0..7

\* C10: a 14-byte buffer starting 0x8D whose callsign is not rejected decodes
\* to ExtendedSquitter with the announced address of bytes 1..=3, the message
\* of bytes 4..=10 and the parity bytes 11..=13, for every type code.
C10_ExtendedSquitterLayout ==
    (GivenExtendedSquitter /\ ~RejectedCallsign) =>
        /\ Returned
        /\ result.val.variant = "ExtendedSquitter"
        /\ result.val.body.address_announced
            = [address |-> input[2] * 65536 + input[3] * 256 + input[4],
               non_icao |-> FALSE]
        /\ result.val.body.adsb_message = adsb_Message_decode(SubSeq(input, 5, 11)).val
        /\ result.val.body.parity_interrogator = SubSeq(input, 12, 14)

\* the last call returned a DF 18 frame
ReturnedNonTransponder ==
    /\ Returned
    /\ InputDf = 18
    /\ result.val.variant = "ExtendedSquitterNonTransponder"

\* C11: a successfully decoded DF 18 frame with code format cf (the low 3 bits
\* of byte 0) has code_format() = cf, and its announced address carries the
\* non-ICAO flag exactly when cf is 1 or 5.
C11_CodeFormatOfVariant ==
    ReturnedNonTransponder =>
        LET f == result.val.body
            cf == BitAnd(input[1], 7)
        IN
        /\ ExtendedSquitterNonTransponder_code_format(f) = cf
        /\ cf \in {1, 5} => "address_announced" \in DOMAIN f
        /\ "address_announced" \in DOMAIN f =>
                (f.address_announced.non_icao <=> cf \in {1, 5})

-----------------------------------------------------------------------------
(* Calls of Callsign::from_bytes and Callsign::from_str.                   *)

\* longest string handed to from_str
MaxStrLen == 9

\* the 6-bit codes of "KLM1023 "
KlmGroups == <<11, 12, 13, 49, 48, 50, 51, 32>>

\* the ASCII characters of "KLM1023 "
KlmCharacters == <<75, 76, 77, 49, 48, 50, 51, 32>>

\* eight 6-bit values packed MSB-first into 6 bytes
PackSixBit(v) ==
    << v[1] * 4 + v[2] \div 16,
       (v[2] % 16) * 16 + v[3] \div 4,
       (v[3] % 4) * 64 + v[4],
       v[5] * 4 + v[6] \div 16,
       (v[6] % 16) * 16 + v[7] \div 4,
       (v[7] % 4) * 64 + v[8] >>

\* 6-bit values on both sides of every run of '#' cells of the table
EdgeCodes == {0, 1, 26, 27, 31, 32, 33, 47, 48, 57, 58, 63}

\* every 6-bit value at every position, and every pair of edge values
CallsignBytesInputs ==
    {PackSixBit([KlmGroups EXCEPT ![p] = v]) : p \in 1..8, v \in 0..63}
    \cup {PackSixBit([KlmGroups EXCEPT ![p] = v, ![q] = w]) :
            p \in 1..8, q \in 1..8, v \in EdgeCodes, w \in EdgeCodes}
    \cup {<<32, 44, 195, 113, 195, 44>>}

\* 'A', 'Z', '0', '9', ' ', 'a', '#', NUL and U+00E9
SampleChars == {65, 90, 48, 57, 32, 97, 35, 0, 233}

\* strings of 0..MaxStrLen characters with at most one character replaced
CallsignStrInputs ==
    LET text(n) == [i \in 1..n |-> KlmCharacters[((i - 1) % 8) + 1]] IN
    {text(n) : n \in 0..MaxStrLen}
    \cup {[text(np[1]) EXCEPT ![np[2]] = c] :
            np \in {x \in (1..MaxStrLen) \X (1..MaxStrLen) : x[2] <= x[1]},
            c \in SampleChars}

CallsignInit ==
    /\ buffer \in CallsignBytesInputs \cup CallsignStrInputs
    /\ input = <<>>
    /\ result = [st |-> "None"]

\* a call f(buffer) that returned ret
Call(f, ret) ==
    /\ result.st = "None"
    /\ result' = [st |-> "Called", fn |-> f, ret |-> ret]
    /\ input' = buffer
    /\ buffer' = <<>>

CallFromBytes ==
    /\ Len(buffer) = 6
    /\ \A i \in 1..6 : buffer[i] \in 0..255
    /\ Call("Callsign::from_bytes", Callsign_from_bytes(buffer))

CallFromStr ==
    /\ \A i \in 1..Len(buffer) : buffer[i] >= 0
    /\ Call("Callsign::from_str", Callsign_from_str(buffer))

CallsignNext == CallFromBytes \/ CallFromStr

SpecCallsign == CallsignInit /\ [][CallsignNext]_vars

\* the last call was of function f
CalledFn(f) == result.st = "Called" /\ result.fn = f

\* the eight 6-bit values of 6 bytes read as one 48-bit number, MSB first
SixBitGroups(bytes) ==
    LET hi == bytes[1] * 65536 + bytes[2] * 256 + bytes[3]
        lo == bytes[4] * 65536 + bytes[5] * 256 + bytes[6]
    IN  << hi \div 262144, (hi \div 4096) % 64, (hi \div 64) % 64, hi % 64,
           lo \div 262144, (lo \div 4096) % 64, (lo \div 64) % 64, lo % 64 >>

\* the 6-bit table index of a character of a callsign
TableIndex(c) == CHOOSE v \in 0..63 : At(CALLSIGN_ENCODING, v) = c

\* C12: Callsign::from_bytes splits the 6 bytes MSB-first into eight 6-bit
\* values; it succeeds exactly when none of them indexes a '#' cell of the
\* table, character i is then the table's entry for value i, and re-encoding
\* the 8 characters into their table indexes and decoding again yields the
\* same callsign.
C12_CallsignSixBitTable ==
    CalledFn("Callsign::from_bytes") =>
        LET v == SixBitGroups(input)
            ret == result.ret
        IN
        /\ ret.st \in {"Ok", "Err"}
        /\ ret.st = "Ok" <=> \A i \in 1..8 : At(CALLSIGN_ENCODING, v[i]) # 35
        /\ ret.st = "Ok" =>
            /\ ret.val.characters = [i \in 1..8 |-> At(CALLSIGN_ENCODING, v[i])]
            /\ Callsign_from_bytes(
                    PackSixBit([i \in 1..8 |-> TableIndex(ret.val.characters[i])]))
                = ret

\* from_bytes decoded a callsign whose second character uses both bytes 0 and 1
C12_Witness ==
    /\ CalledFn("Callsign::from_bytes")
    /\ input = PackSixBit(<<11, 57, 13, 49, 48, 50, 51, 32>>)
    /\ result.ret = [st |-> "Ok",
                     val |-> [characters |-> <<75, 57, 77, 49, 48, 50, 51, 32>>]]

\* the first of the eight 6-bit values that indexes a '#' cell
OffendingValue(bytes) ==
    LET v == SixBitGroups(bytes)
        bad == {i \in 1..8 : At(CALLSIGN_ENCODING, v[i]) = 35}
    IN  v[CHOOSE i \in bad : \A k \in bad : i <= k]

\* C13: when Callsign::from_bytes rejects its input the error is
\* InvalidCallsign whose encoding is the 6 input bytes and whose invalid_byte
\* is the offending 6-bit source value, the first group that maps to '#'.
C13_InvalidByteIsSourceValue ==
    (CalledFn("Callsign::from_bytes") /\ result.ret.st = "Err") =>
        result.ret.error = InvalidCallsign(input, OffendingValue(input))

\* the alphabet of a callsign: A-Z, 0-9 and space
CallsignAlphabet == 65..90 \cup 48..57 \cup {32}

\* C14: every Callsign constructed by Callsign::from_bytes or by
\* Callsign::from_str, for any input string, holds exactly 8 characters, each
\* one of A-Z, 0-9 or space.
C14_CallsignAlphabet ==
    (result.st = "Called" /\ result.ret.st = "Ok") =>
        /\ Len(result.ret.val.characters) = 8
        /\ \A i \in 1..8 : result.ret.val.characters[i] \in CallsignAlphabet

\* C15: Callsign::from_bytes([0x20, 0x2C, 0xC3, 0x71, 0xC3, 0x2C]) succeeds
\* and returns the callsign "KLM1023 ".
C15_SpecExampleDecodes ==
    (CalledFn("Callsign::from_bytes") /\ input = <<32, 44, 195, 113, 195, 44>>) =>
        result.ret = [st |-> "Ok", val |-> [characters |-> KlmCharacters]]

\* C15 as amended: the six bytes that follow the type byte 0x20 of the ME field
\* 20 2C C3 71 C3 2C E0, [0x2C, 0xC3, 0x71, 0xC3, 0x2C, 0xE0], decode to
\* "KLM1023 "; the bytes [0x20, 0x2C, 0xC3, 0x71, 0xC3, 0x2C] are rejected
\* because their fifth 6-bit value, 28, is a '#' cell.
C15_KlmExampleDecodes ==
    CalledFn("Callsign::from_bytes") =>
        /\ input = <<44, 195, 113, 195, 44, 224>> =>
            result.ret = [st |-> "Ok", val |-> [characters |-> KlmCharacters]]
        /\ input = <<32, 44, 195, 113, 195, 44>> =>
            /\ result.ret.st = "Err"
            /\ result.ret.error.kind = "InvalidCallsign"
            /\ SixBitGroups(input)[5] = 28

\* from_bytes was given the ME payload of the KLM1023 frame and returned
C15_Witness ==
    /\ CalledFn("Callsign::from_bytes")
    /\ input = <<44, 195, 113, 195, 44, 224>>
    /\ result.ret.st = "Ok"

-----------------------------------------------------------------------------
(* Squawk (adsbee-types).                                                  *)

\* largest u16, the type of Squawk's code
U16_MAX == 65535

Squawk_from_u16_unchecked(code) == [code |-> code]

\* the literal 010000 of `code < 010000` is decimal in Rust
Squawk_from_u16(code) ==
    IF code < 10000 THEN Some(Squawk_from_u16_unchecked(code)) ELSE None

\* the octal digits of n as characters, most significant first
RECURSIVE OctalDigits(_)
OctalDigits(n) ==
    IF n < 8 THEN <<48 + n>> ELSE OctalDigits(n \div 8) \o <<48 + (n % 8)>>

\* <Squawk as Display>::fmt: "{:04o}", zero-padded to at least 4 digits
Squawk_Display(squawk) ==
    LET digits == OctalDigits(squawk.code) IN
    IF Len(digits) >= 4 THEN digits
    ELSE [i \in 1..(4 - Len(digits)) |-> 48] \o digits

\* the value of a string of digits in a radix, NoNumber when a character is no
\* digit of the radix or the value exceeds u16
NoNumber == -1

RECURSIVE DigitsValue(_, _, _)
DigitsValue(digits, radix, acc) ==
    IF digits = <<>> THEN acc
    ELSE LET d == Head(digits) - 48 IN
         IF d < 0 \/ d >= radix THEN NoNumber
         ELSE LET n == acc * radix + d IN
              IF n > U16_MAX THEN NoNumber
              ELSE DigitsValue(Tail(digits), radix, n)

\* u16::from_str_radix: an optional '+', then at least one digit
u16_from_str_radix(s, radix) ==
    LET digits == IF s # <<>> /\ Head(s) = 43 THEN Tail(s) ELSE s IN
    IF digits = <<>> THEN NoNumber ELSE DigitsValue(digits, radix, 0)

SquawkFromStrError(text) == [kind |-> "SquawkFromStrError", input |-> text]

\* Squawk::from_str reading the string as decimal
Squawk_from_str_decimal(s) ==
    LET code == u16_from_str_radix(s, 10) IN
    IF code = NoNumber THEN [st |-> "Err", error |-> SquawkFromStrError(s)]
    ELSE LET squawk == Squawk_from_u16(code) IN
         IF squawk = None THEN [st |-> "Err", error |-> SquawkFromStrError(s)]
         ELSE [st |-> "Ok", val |-> squawk[1]]

\* <Squawk as FromStr>::from_str
Squawk_from_str(s) ==
    LET code == u16_from_str_radix(s, 8) IN
    IF code = NoNumber THEN [st |-> "Err", error |-> SquawkFromStrError(s)]
    ELSE LET squawk == Squawk_from_u16(code) IN
         IF squawk = None THEN [st |-> "Err", error |-> SquawkFromStrError(s)]
         ELSE [st |-> "Ok", val |-> squawk[1]]

\* longest string handed to Squawk::from_str that no Squawk displays as
MaxSquawkStrLen == 4

\* '0', '3', '7', '8', '+', '-' and 'a'
SquawkChars == {48, 51, 55, 56, 43, 45, 97}

RECURSIVE Strings(_, _)
Strings(n, chars) ==
    IF n = 0 THEN {<<>>}
    ELSE {<<c>> \o s : c \in chars, s \in Strings(n - 1, chars)}

SquawkStrInputs == UNION {Strings(n, SquawkChars) : n \in 0..MaxSquawkStrLen}

SquawkInit ==
    /\ buffer \in {[u16 |-> code] : code \in 0..U16_MAX}
                    \cup {[str |-> s] : s \in SquawkStrInputs}
    /\ input = <<>>
    /\ result = [st |-> "None"]

CallSquawkFromU16 ==
    /\ "u16" \in DOMAIN buffer
    /\ Call("Squawk::from_u16", Squawk_from_u16(buffer.u16))

\* squawk.to_string() of a squawk with the code given
FormatSquawk ==
    /\ result.st = "None"
    /\ "u16" \in DOMAIN buffer
    /\ buffer' = [str |-> Squawk_Display(Squawk_from_u16_unchecked(buffer.u16)),
                  of |-> buffer.u16]
    /\ input' = buffer
    /\ UNCHANGED result

CallSquawkFromStr ==
    /\ "str" \in DOMAIN buffer
    /\ Call("Squawk::from_str", Squawk_from_str(buffer.str))

SquawkNext == CallSquawkFromU16 \/ FormatSquawk \/ CallSquawkFromStr

SpecSquawk == SquawkInit /\ [][SquawkNext]_vars

\* C16: for every s in 0..4096 the display of s has 4 octal digits, and
\* parsing it with Squawk::from_str succeeds and yields the Squawk that
\* Squawk::from_u16(s) returns, which is Some.
C16_SquawkDisplayFromStr ==
    (CalledFn("Squawk::from_str") /\ "of" \in DOMAIN input /\ input.of < 4096) =>
        /\ Len(input.str) = 4
        /\ result.ret.st = "Ok"
        /\ result.ret.val.code = input.of
        /\ Squawk_from_u16(input.of) = Some(result.ret.val)

\* the display "7700" of the squawk 0o7700 was parsed
C16_Witness ==
    /\ CalledFn("Squawk::from_str")
    /\ "of" \in DOMAIN input
    /\ input.of = 4032
    /\ input.str = <<55, 55, 48, 48>>
    /\ result.ret = [st |-> "Ok", val |-> [code |-> 4032]]

\* an optional '+' and at least one octal digit
OctalNumeral(s) ==
    LET digits == IF s # <<>> /\ Head(s) = 43 THEN Tail(s) ELSE s IN
    /\ digits # <<>>
    /\ \A i \in 1..Len(digits) : digits[i] \in 48..55

\* the value of an octal numeral of at most 6 digits
OctalValue(s) ==
    LET digits == IF Head(s) = 43 THEN Tail(s) ELSE s
        n == Len(digits)
        RECURSIVE Sum(_)
        Sum(k) == IF k = 0 THEN 0 ELSE Sum(k - 1) * 8 + (digits[k] - 48)
    IN  Sum(n)

\* C17: Squawk::from_u16(code) returns a value exactly when code < 0o10000,
\* Squawk::from_str accepts a string exactly when it is an octal numeral of
\* value < 0o10000, and every Squawk so obtained has a value in 0..=4095.
C17_SquawkCheckedRange ==
    /\ CalledFn("Squawk::from_u16") =>
        /\ result.ret # None <=> input.u16 < 4096
        /\ result.ret # None => result.ret[1].code \in 0..4095
    /\ CalledFn("Squawk::from_str") =>
        /\ result.ret.st = "Ok" <=>
                (OctalNumeral(input.str) /\ OctalValue(input.str) < 4096)
        /\ result.ret.st = "Ok" => result.ret.val.code \in 0..4095

-----------------------------------------------------------------------------
(* IcaoAddress (adsbee-types): as_bytes and from_bytes.                    *)

IcaoAddress_from_u32_unchecked(address) == [address |-> address, non_icao |-> FALSE]

\* IcaoAddress::as_bytes: the three low bytes of address.to_be_bytes(), after
\* assert!(b[0] == 0)
IcaoAddress_as_bytes(a) ==
    IF a.address \div 16777216 # 0
    THEN [st |-> "Panic", msg |-> "assertion failed: b[0] == 0"]
    ELSE [st |-> "Ok",
          val |-> << (a.address \div 65536) % 256, (a.address \div 256) % 256,
                     a.address % 256 >>]

\* byte values tried in each of the three bytes of an address
AddressByteSamples == {0, 1, 18, 75, 127, 128, 169, 255}

\* 24-bit addresses with and without the non-ICAO flag, and two addresses
\* from_u32_unchecked accepts that do not fit 24 bits
IcaoAddressInputs ==
    {[address |-> b0 * 65536 + b1 * 256 + b2, non_icao |-> f] :
        b0 \in AddressByteSamples, b1 \in AddressByteSamples,
        b2 \in AddressByteSamples, f \in BOOLEAN}
    \cup {IcaoAddress_from_u32_unchecked(16777216),
          with_non_icao_flag(IcaoAddress_from_u32_unchecked(16777217))}

IcaoInit ==
    /\ buffer \in IcaoAddressInputs
    /\ input = <<>>
    /\ result = [st |-> "None"]

\* a.as_bytes(): the bytes are kept for the call of from_bytes, a panic ends
\* the process
CallAsBytes ==
    /\ result.st = "None"
    /\ "address" \in DOMAIN buffer
    /\ LET r == IcaoAddress_as_bytes(buffer) IN
        /\ input' = buffer
        /\ IF r.st = "Ok"
           THEN buffer' = [bytes |-> r.val, of |-> buffer] /\ UNCHANGED result
           ELSE buffer' = <<>> /\ result' = [st |-> "Panic", fn |-> "IcaoAddress::as_bytes"]

CallIcaoFromBytes ==
    /\ "bytes" \in DOMAIN buffer
    /\ Call("IcaoAddress::from_bytes", IcaoAddress_from_bytes(buffer.bytes))

IcaoNext == CallAsBytes \/ CallIcaoFromBytes

SpecIcao == IcaoInit /\ [][IcaoNext]_vars

\* C18: for every IcaoAddress a with a 24-bit address, with or without the
\* non-ICAO flag, IcaoAddress::from_bytes(a.as_bytes()) == a, and as_bytes
\* does not panic for such a.
C18_IcaoAddressRoundTrip ==
    /\ CalledFn("IcaoAddress::from_bytes") => result.ret = input.of
    /\ (result.st = "Panic" /\ result.fn = "IcaoAddress::as_bytes") =>
            input.address > 16777215

-----------------------------------------------------------------------------
(* Movement: the ground-speed quantization (mode_s/adsb.rs).               *)

Quantized(encoded_base, decoded_base, decoded_step) ==
    [variant |-> "Quantized", encoded_base |-> encoded_base,
     decoded_base |-> decoded_base, decoded_step |-> decoded_step]

\* from_encoded_value with the 39..=93 range stepping by 4 instead of 8
GroundSpeedQuantization_from_encoded_value_step(encoded) ==
    CASE encoded = 0 -> [variant |-> "NotAvailable"]
      [] encoded = 1 -> [variant |-> "Stopped"]
      [] encoded \in 2..8 -> Quantized(2, 1, 1)
      [] encoded \in 9..12 -> Quantized(9, 8, 2)
      [] encoded \in 13..38 -> Quantized(13, 16, 4)
      [] encoded \in 39..93 -> Quantized(39, 120, 4)
      [] encoded \in 94..108 -> Quantized(94, 560, 16)
      [] encoded \in 109..123 -> Quantized(109, 800, 40)
      [] encoded = 124 -> [variant |-> "Exceeding175Kt"]
      [] OTHER -> [variant |-> "Reserved"]

GroundSpeedQuantization_from_encoded_value(encoded) ==
    CASE encoded = 0 -> [variant |-> "NotAvailable"]
      [] encoded = 1 -> [variant |-> "Stopped"]
      [] encoded \in 2..8 -> Quantized(2, 1, 1)
      [] encoded \in 9..12 -> Quantized(9, 8, 2)
      [] encoded \in 13..38 -> Quantized(13, 16, 4)
      [] encoded \in 39..93 -> Quantized(39, 120, 8)
      [] encoded \in 94..108 -> Quantized(94, 560, 16)
      [] encoded \in 109..123 -> Quantized(109, 800, 40)
      [] encoded = 124 -> [variant |-> "Exceeding175Kt"]
      [] OTHER -> [variant |-> "Reserved"]

\* Movement::decode_as_1_8th_kt; movement is the u8 the Movement wraps
Movement_decode_as_1_8th_kt(movement) ==
    LET q == GroundSpeedQuantization_from_encoded_value(movement) IN
    CASE q.variant = "NotAvailable" -> None
      [] q.variant = "Stopped" -> Some(0)
      [] q.variant = "Quantized" ->
            Some((movement - q.encoded_base) * q.decoded_step + q.decoded_base)
      [] q.variant = "Exceeding175Kt" -> Some(1400)
      [] q.variant = "Reserved" -> None

\* every Movement from_u8_unchecked can wrap
MovementInit ==
    /\ buffer \in {[movement |-> e] : e \in 0..255}
    /\ input = <<>>
    /\ result = [st |-> "None"]

CallDecodeAs1_8thKt ==
    /\ "movement" \in DOMAIN buffer
    /\ Call("Movement::decode_as_1_8th_kt", Movement_decode_as_1_8th_kt(buffer.movement))

MovementNext == CallDecodeAs1_8thKt

SpecMovement == MovementInit /\ [][MovementNext]_vars

\* the quantization table as stated, in 1/8 kt; <<>> where no speed is given
StatedSpeed(e) ==
    CASE e = 0 -> <<>>
      [] e = 1 -> <<0>>
      [] e >= 2 /\ e <= 8 -> <<1 + (e - 2)>>
      [] e >= 9 /\ e <= 12 -> <<8 + 2 * (e - 9)>>
      [] e >= 13 /\ e <= 38 -> <<16 + 4 * (e - 13)>>
      [] e >= 39 /\ e <= 93 -> <<120 + 8 * (e - 39)>>
      [] e >= 94 /\ e <= 108 -> <<560 + 16 * (e - 94)>>
      [] e >= 109 /\ e <= 123 -> <<800 + 40 * (e - 109)>>
      [] e = 124 -> <<175 * 8>>
      [] e >= 125 /\ e <= 127 -> <<>>

\* C19: Movement::decode_as_1_8th_kt follows the quantization table for every
\* 7-bit code, and over the quantized codes 2..=123 the decoded speed is
\* monotonic: a smaller code never decodes to a greater speed.
C19_MovementQuantization ==
    (CalledFn("Movement::decode_as_1_8th_kt") /\ input.movement <= 127) =>
        /\ result.ret = StatedSpeed(input.movement)
        /\ input.movement \in 2..123 =>
            \A e1 \in 2..123 :
                e1 < input.movement =>
                    Movement_decode_as_1_8th_kt(e1)[1] <= result.ret[1]

\* the code 8 decoded to 7/8 kt and the code 39 to 15 kt
C19_Witness ==
    /\ CalledFn("Movement::decode_as_1_8th_kt")
    /\ \/ input.movement = 8 /\ result.ret = <<7>>
       \/ input.movement = 39 /\ result.ret = <<120>>

-----------------------------------------------------------------------------
(* The 13-bit AltitudeCode (mode_s/mod.rs).                                *)

\* XOR of the Gray-code masks of the bits that are set
RECURSIVE GrayXor(_, _)
GrayXor(bits, masks) ==
    IF bits = <<>> THEN 0
    ELSE LET rest == GrayXor(Tail(bits), Tail(masks)) IN
         IF Head(bits) = 0 THEN rest
         ELSE rest + Head(masks) - 2 * BitAnd(rest, Head(masks))

\* the hundred-feet count of a Gillham word C1 A1 C2 A2 C4 A4 M B1 Q B2 D2 B4 D4:
\* the 500-ft Gray code D2 D4 A1 A2 A4 B1 B2 B4 and the 100-ft Gray code
\* C1 C2 C4, whose value 7 stands for 5 and which is read downwards on odd
\* 500-ft steps; NoCount when the 100-ft code is outside what is enforced
NoCount == -1

decode_gillham_ac13(w) ==
    LET c == GrayXor(<<Bit(w, 12), Bit(w, 10), Bit(w, 8)>>, <<7, 3, 1>>)
        one_hundreds == IF BitAnd(c, 5) = 5 THEN IF c = 7 THEN 5 ELSE 7 ELSE c
        five_hundreds ==
            GrayXor(<<Bit(w, 2), Bit(w, 0), Bit(w, 11), Bit(w, 9), Bit(w, 7),
                      Bit(w, 5), Bit(w, 3), Bit(w, 1)>>,
                    <<255, 127, 63, 31, 15, 7, 3, 1>>)
    IN  IF one_hundreds = 0 \/ one_hundreds > 5 THEN NoCount
        ELSE five_hundreds * 5
                + (IF five_hundreds % 2 = 1 THEN 6 - one_hundreds ELSE one_hundreds)
                - 1

DecodedAltitude(altitude, unit) == [altitude |-> altitude, unit |-> unit]

\* AltitudeCode::decode folding the Q bit out with a shift by 2 only
AltitudeCode_decode_fold(word) ==
    IF word = 0 \/ word = 8191 THEN [st |-> "Ok", val |-> None]
    ELSE
    LET m_bit == BitAnd(word, 64) # 0
        q_bit == BitAnd(word, 16) # 0
        plain_altitude ==
            BitOr(Shr(BitAnd(word, 8064), 2), BitAnd(word, 15))
    IN  IF m_bit
        THEN [st |-> "Ok", val |-> Some(DecodedAltitude(plain_altitude, "Meter"))]
        ELSE IF q_bit
        THEN [st |-> "Ok",
              val |-> Some(DecodedAltitude(25 * plain_altitude - 1000, "Feet"))]
        ELSE LET count == decode_gillham_ac13(word) IN
             IF count = NoCount
             THEN [st |-> "Panic", msg |-> "decode_gillham_ac13"]
             ELSE [st |-> "Ok",
                   val |-> Some(DecodedAltitude(100 * count - 1200, "Feet"))]

\* AltitudeCode::decode; word is the u16 the AltitudeCode wraps
AltitudeCode_decode(word) ==
    IF word = 0 \/ word = 8191 THEN [st |-> "Ok", val |-> None]
    ELSE
    LET m_bit == BitAnd(word, 64) # 0
        q_bit == BitAnd(word, 16) # 0
        plain_altitude ==
            BitOr(BitOr(Shr(BitAnd(word, 8064), 2), Shr(BitAnd(word, 32), 1)),
                  BitAnd(word, 15))
    IN  IF m_bit
        THEN [st |-> "Ok", val |-> Some(DecodedAltitude(plain_altitude, "Meter"))]
        ELSE IF q_bit
        THEN [st |-> "Ok",
              val |-> Some(DecodedAltitude(25 * plain_altitude - 1000, "Feet"))]
        ELSE LET count == decode_gillham_ac13(word) IN
             IF count = NoCount
             THEN [st |-> "Panic", msg |-> "decode_gillham_ac13"]
             ELSE [st |-> "Ok",
                   val |-> Some(DecodedAltitude(100 * count - 1200, "Feet"))]

\* every AltitudeCode AltitudeCode::from_u16 accepts
AltitudeCodeInit ==
    /\ buffer \in {[word |-> w] : w \in 0..8191}
    /\ input = <<>>
    /\ result = [st |-> "None"]

CallAltitudeCodeDecode ==
    /\ "word" \in DOMAIN buffer
    /\ Call("AltitudeCode::decode", AltitudeCode_decode(buffer.word))

AltitudeCodeNext == CallAltitudeCodeDecode

SpecAltitudeCode == AltitudeCodeInit /\ [][AltitudeCodeNext]_vars

\* the listed pairs of AC-13 code and altitude in feet
ListedAltitudes ==
    { <<6320, 38600>>, <<3601, 21425>>, <<4152, 25200>>, <<3129, 18825>>,
      <<5913, 36025>>, <<4757, 28725>>, <<5776, 35000>>, <<6064, 37000>>,
      <<2203, 12875>>, <<5272, 32000>>, <<442, 2050>>, <<412, 1700>>,
      <<6552, 40000>>, <<1343, 7775>>, <<2332, 13700>>, <<5560, 34000>> }

\* the 11-bit number left of a 13-bit code after removing the M and Q bits
WithoutMAndQ(w) == (w \div 128) * 32 + ((w \div 32) % 2) * 16 + (w % 16)

\* C20: the 13-bit AltitudeCode::decode returns no altitude for the codes 0
\* and 0x1FFF, the listed altitude in feet for each listed AC-13 code, and
\* 25 * N - 1000 ft for every code with the M bit clear and the Q bit set,
\* N being the 11-bit number left after removing the M and Q bits.
C20_AltitudeCodeDecode ==
    CalledFn("AltitudeCode::decode") =>
        LET w == input.word
            ret == result.ret
        IN
        /\ w \in {0, 8191} => ret = [st |-> "Ok", val |-> None]
        /\ \A p \in ListedAltitudes :
                w = p[1] =>
                    ret = [st |-> "Ok", val |-> Some(DecodedAltitude(p[2], "Feet"))]
        /\ ((w \div 64) % 2 = 0 /\ (w \div 16) % 2 = 1) =>
                ret = [st |-> "Ok",
                       val |-> Some(DecodedAltitude(25 * WithoutMAndQ(w) - 1000, "Feet"))]

\* the code 6320, whose bit 5 is set, decoded to 38600 ft
C20_Witness ==
    /\ CalledFn("AltitudeCode::decode")
    /\ input.word = 6320
    /\ result.ret = [st |-> "Ok", val |-> Some(DecodedAltitude(38600, "Feet"))]

-----------------------------------------------------------------------------
(* The 12-bit ADS-B AltitudeCode (mode_s/adsb.rs).                         *)

adsb_DecodedAltitude(altitude_type, altitude) ==
    [altitude_type |-> altitude_type, altitude |-> altitude]

\* adsb::AltitudeCode::decode; word is the u16 the AltitudeCode wraps
adsb_AltitudeCode_decode(word, altitude_type) ==
    IF word = 0 THEN [st |-> "Ok", val |-> None]
    ELSE
    LET q_bit == BitAnd(word, 16) # 0 IN
    IF q_bit
    THEN [st |-> "Ok",
          val |-> Some(adsb_DecodedAltitude(altitude_type,
                        BitOr(Shr(word, 5), BitAnd(word, 15)) * 25 - 1000))]
    ELSE [st |-> "Panic", msg |-> "not yet implemented"]

\* every AltitudeCode adsb::AltitudeCode::from_u16 accepts, with either type
AdsbAltitudeCodeInit ==
    /\ buffer \in {[word |-> w, altitude_type |-> t] :
                    w \in 0..4095, t \in {"Barometric", "Gnss"}}
    /\ input = <<>>
    /\ result = [st |-> "None"]

CallAdsbAltitudeCodeDecode ==
    /\ "altitude_type" \in DOMAIN buffer
    /\ Call("adsb::AltitudeCode::decode",
            adsb_AltitudeCode_decode(buffer.word, buffer.altitude_type))

AdsbAltitudeCodeNext == CallAdsbAltitudeCodeDecode

SpecAdsbAltitudeCode == AdsbAltitudeCodeInit /\ [][AdsbAltitudeCodeNext]_vars

\* a 12-bit code with its Q bit (bit 4) folded out:
\* ((code >> 1) & 0x7F0) | (code & 0x0F)
WithoutQ(code) == (code \div 32) * 16 + (code % 16)

\* C21: the 12-bit AltitudeCode::decode returns a result for every 12-bit
\* code: none for code 0; with the Q bit set, 25 times the code without its
\* Q bit, less 1000; with the Q bit clear and code # 0, a Gillham altitude.
C21_AdsbAltitudeCodeDecode ==
    CalledFn("adsb::AltitudeCode::decode") =>
        LET code == input.word
            ret == result.ret
        IN
        /\ ret.st = "Ok"
        /\ code = 0 => ret.val = None
        /\ code # 0 =>
            /\ ret.val # None
            /\ (code \div 16) % 2 = 1 =>
                    ret.val[1].altitude = WithoutQ(code) * 25 - 1000

\* C22: the 12-bit AltitudeCode 0b0000_0001_0011_0000 (Q bit set) decodes to
\* -375 ft.
C22_QBitExample ==
    (CalledFn("adsb::AltitudeCode::decode") /\ input.word = 304) =>
        /\ result.ret.st = "Ok"
        /\ result.ret.val # None
        /\ result.ret.val[1].altitude = -375

-----------------------------------------------------------------------------
(* Checked constructors of the scalar newtypes.                            *)

\* `if raw & mask == 0 { Some(Self(raw)) } else { None }`
Checked(raw, mask) == IF BitAnd(raw, mask) = 0 THEN Some(raw) ELSE None

\* `if raw & mask == 0 && raw != 0 { Some(Self(raw)) } else { None }`
CheckedNonZero(raw, mask) ==
    IF BitAnd(raw, mask) = 0 /\ raw # 0 THEN Some(raw) ELSE None

Capability_from_u8(byte) == Checked(byte, 248)

CodeFormat_from_u8(byte) == Checked(byte, 248)

FlightStatus_from_u8(byte) == Checked(byte, 248)

DownlinkRequest_from_u8(byte) == Checked(byte, 224)

InterrogatorIdentifierSubfield_from_u8(byte) == Checked(byte, 240)

InterrogatorReservationType_from_u8(byte) == Checked(byte, 252)

AltitudeCode_from_u16(word) == Checked(word, 57344)

IdentityCode_from_u16(word) == Checked(word, 57344)

SensitivityLevel_from_u8(byte) == Checked(byte, 248)

ReplyInformation_from_u8(byte) == Checked(byte, 240)

EmergencyPriorityStatus_from_u8(byte) == Checked(byte, 248)

Movement_from_u8(byte) == Checked(byte, 128)

GroundTrack_from_u8(byte) == Checked(byte, 128)

SurveillanceStatus_from_u8(byte) == Checked(byte, 252)

adsb_AltitudeCode_from_u16(word) == Checked(word, 61440)

MagneticHeading_from_u16(word) == Checked(word, 64512)

NavigationUncertaintyCategory_from_u8(byte) == CheckedNonZero(byte, 248)

TurnIndicator_from_u8(byte) == CheckedNonZero(byte, 248)

UtilityMessage_from_u8(byte) ==
    IF BitAnd(byte, 192) = 0 THEN Some(UtilityMessage_from_u8_unchecked(byte))
    ELSE None

WakeVortexCategory_from_type_code_and_category(type_code, category) ==
    IF BitAnd(type_code, 224) = 0 /\ BitAnd(category, 7) = 0
    THEN Some(WakeVortexCategory_from_type_code_and_category_unchecked(
                type_code, category))
    ELSE None

\* the newtypes over u8 and over u16 that have a checked constructor
ByteTypes ==
    {"Capability", "CodeFormat", "FlightStatus", "DownlinkRequest",
     "UtilityMessage", "InterrogatorIdentifierSubfield",
     "InterrogatorReservationType", "SensitivityLevel", "ReplyInformation",
     "EmergencyPriorityStatus", "Movement", "GroundTrack", "SurveillanceStatus",
     "NavigationUncertaintyCategory", "TurnIndicator"}

WordTypes == {"AltitudeCode", "IdentityCode", "adsb::AltitudeCode", "MagneticHeading"}

\* T::from_u8(raw) or T::from_u16(raw) of the type named
from_checked(type, raw) ==
    CASE type = "Capability" -> Capability_from_u8(raw)
      [] type = "CodeFormat" -> CodeFormat_from_u8(raw)
      [] type = "FlightStatus" -> FlightStatus_from_u8(raw)
      [] type = "DownlinkRequest" -> DownlinkRequest_from_u8(raw)
      [] type = "UtilityMessage" -> UtilityMessage_from_u8(raw)
      [] type = "InterrogatorIdentifierSubfield" ->
            InterrogatorIdentifierSubfield_from_u8(raw)
      [] type = "InterrogatorReservationType" ->
            InterrogatorReservationType_from_u8(raw)
      [] type = "SensitivityLevel" -> SensitivityLevel_from_u8(raw)
      [] type = "ReplyInformation" -> ReplyInformation_from_u8(raw)
      [] type = "EmergencyPriorityStatus" -> EmergencyPriorityStatus_from_u8(raw)
      [] type = "Movement" -> Movement_from_u8(raw)
      [] type = "GroundTrack" -> GroundTrack_from_u8(raw)
      [] type = "SurveillanceStatus" -> SurveillanceStatus_from_u8(raw)
      [] type = "NavigationUncertaintyCategory" ->
            NavigationUncertaintyCategory_from_u8(raw)
      [] type = "TurnIndicator" -> TurnIndicator_from_u8(raw)
      [] type = "AltitudeCode" -> AltitudeCode_from_u16(raw)
      [] type = "IdentityCode" -> IdentityCode_from_u16(raw)
      [] type = "adsb::AltitudeCode" -> adsb_AltitudeCode_from_u16(raw)
      [] type = "MagneticHeading" -> MagneticHeading_from_u16(raw)

\* u16 values tried: every value of up to 12 bits, and the values around
\* every multiple of 1024
WordSamples ==
    0..4100 \cup {k * 1024 + j : k \in 0..63, j \in {0, 1, 1023}}

CheckedInit ==
    /\ buffer \in {[type |-> t, raw |-> b] : t \in ByteTypes, b \in 0..255}
            \cup {[type |-> t, raw |-> w] : t \in WordTypes, w \in WordSamples}
            \cup {[type_code |-> tc, category |-> c] : tc \in 0..255, c \in 0..255}
    /\ input = <<>>
    /\ result = [st |-> "None"]

CallFromChecked ==
    /\ "raw" \in DOMAIN buffer
    /\ Call("from_checked", from_checked(buffer.type, buffer.raw))

CallWakeVortexCategory ==
    /\ "category" \in DOMAIN buffer
    /\ Call("WakeVortexCategory::from_type_code_and_category",
            WakeVortexCategory_from_type_code_and_category(
                buffer.type_code, buffer.category))

CheckedNext == CallFromChecked \/ CallWakeVortexCategory

SpecChecked == CheckedInit /\ [][CheckedNext]_vars

\* the declared bit width of each newtype
DeclaredWidth(type) ==
    CASE type \in {"InterrogatorReservationType", "SurveillanceStatus",
                   "TurnIndicator"} -> 2
      [] type \in {"Capability", "CodeFormat", "FlightStatus", "SensitivityLevel",
                   "EmergencyPriorityStatus", "NavigationUncertaintyCategory"} -> 3
      [] type \in {"ReplyInformation", "InterrogatorIdentifierSubfield"} -> 4
      [] type = "DownlinkRequest" -> 5
      [] type = "UtilityMessage" -> 6
      [] type \in {"Movement", "GroundTrack"} -> 7
      [] type = "MagneticHeading" -> 10
      [] type = "adsb::AltitudeCode" -> 12
      [] type \in {"AltitudeCode", "IdentityCode"} -> 13

\* C23: the checked constructor of each scalar newtype returns a value exactly
\* when the raw integer fits the type's declared bit width, and
\* WakeVortexCategory::from_type_code_and_category exactly for a 5-bit type
\* code and a 3-bit category.
C23_CheckedConstructors ==
    /\ CalledFn("from_checked") =>
        (result.ret # None <=> input.raw < 2 ^ DeclaredWidth(input.type))
    /\ CalledFn("WakeVortexCategory::from_type_code_and_category") =>
        (result.ret # None <=> (input.type_code < 32 /\ input.category < 8))

-----------------------------------------------------------------------------
(* Claims about the payload decoders, on the frames of Spec.               *)

\* the last call returned a frame whose ADS-B message is the variant named
DecodedMessage(variant) == HasAdsbMessage /\ AdsbMessage.variant = variant

\* byte i (0..5) of the payload that follows the type-code byte of the ME field
PayloadByte(i) == input[6 + i]

\* a code of 0 is not available
CodeOrNone(code) == IF code = 0 THEN <<>> ELSE <<code>>

\* C24: AirborneVelocity::decode extracts the multi-bit fields at the
\* positions of the layout abcccdee eeeeeeee fggggggg ggghijjj jjjjjjkk
\* lmmmmmmm, and reports a velocity, vertical rate or altitude difference as
\* not available exactly when its code is 0.
C24_AirborneVelocityFields ==
    DecodedMessage("AirborneVelocity") =>
        LET v == AdsbMessage.body
            e == (PayloadByte(0) % 4) * 256 + PayloadByte(1)
            g == (PayloadByte(2) % 128) * 8 + PayloadByte(3) \div 32
            j == (PayloadByte(3) % 8) * 64 + PayloadByte(4) \div 4
        IN
        /\ v.navigation_uncertainty_category = (PayloadByte(0) \div 8) % 8
        /\ v.turn_indicator = PayloadByte(4) % 4
        /\ v.vertical_rate.value = CodeOrNone(j)
        /\ v.altitude_difference.value = CodeOrNone(PayloadByte(5) % 128)
        /\ v.velocity_type.variant = "GroundSpeed" =>
            /\ v.velocity_type.velocity_east_west = CodeOrNone(e)
            /\ v.velocity_type.velocity_north_south = CodeOrNone(g)
        /\ v.velocity_type.variant = "Airspeed" =>
            /\ v.velocity_type.magnetic_heading \in {<<>>, <<e>>}
            /\ v.velocity_type.airspeed_value = CodeOrNone(g)

\* bit `mask` of payload byte i is set
PayloadBit(i, mask) == (PayloadByte(i) \div mask) % 2 = 1

\* C25: AirborneVelocity::decode reads each one-bit field at its layout
\* position (a 0x80 and b 0x40 and d 0x04 of byte 0, f 0x80 of byte 2, h 0x10
\* and i 0x08 of byte 3, l 0x80 of byte 5), and sub-types 1 and 2 yield
\* GroundSpeed with supersonic false, sub-types 3 and 4 Airspeed with
\* supersonic true.
C25_AirborneVelocityFlags ==
    DecodedMessage("AirborneVelocity") =>
        LET v == AdsbMessage.body
            t == v.velocity_type
        IN
        /\ v.intent_change_flag = PayloadBit(0, 128)
        /\ v.ifr_capability_flag = PayloadBit(0, 64)
        /\ (v.vertical_rate.source = "Barometric") = PayloadBit(3, 16)
        /\ (v.vertical_rate.sign = "Down") = PayloadBit(3, 8)
        /\ (v.altitude_difference.sign = "GnssBelowBarometric") = PayloadBit(5, 128)
        /\ MeSubType \in {1, 2} =>
            /\ t.variant = "GroundSpeed" /\ v.supersonic = FALSE
            /\ (t.direction_east_west = "EastToWest") = PayloadBit(0, 4)
            /\ (t.direction_north_south = "NorthToSouth") = PayloadBit(2, 128)
        /\ MeSubType \in {3, 4} =>
            /\ t.variant = "Airspeed" /\ v.supersonic = TRUE
            /\ (t.magnetic_heading # <<>>) = PayloadBit(0, 4)
            /\ (t.airspeed_type = "True") = PayloadBit(2, 128)

\* C26: AirbornePosition::decode follows the layout tttttssS aaaaaaaa
\* aaaaTFll: surveillance_status is the two s bits and single_antenna_flag the
\* S bit of the type-code byte, encoded_altitude is the 12-bit value
\* (payload byte 0 << 4) | (payload byte 1 >> 4), and time is bit 0x08 of
\* payload byte 1.
C26_AirbornePositionFields ==
    DecodedMessage("AirbornePosition") =>
        LET p == AdsbMessage.body IN
        /\ p.surveillance_status = MeSubType \div 2
        /\ p.single_antenna_flag = (MeSubType % 2 = 1)
        /\ p.encoded_altitude = PayloadByte(0) * 16 + PayloadByte(1) \div 16
        /\ p.time = PayloadBit(1, 8)

\* C27: SurfacePosition::decode builds the 7-bit movement code from the
\* sub-type bits and the high nibble of payload byte 0, reports a ground
\* track exactly when bit 0x08 of payload byte 0 is set, as the 7-bit code
\* ((byte 0 & 0x07) << 4) | (byte 1 >> 4), and reads time from bit 0x08 of
\* payload byte 1.
C27_SurfacePositionFields ==
    DecodedMessage("SurfacePosition") =>
        LET p == AdsbMessage.body IN
        /\ p.ground_speed = MeSubType * 16 + PayloadByte(0) \div 16
        /\ p.ground_track =
               IF PayloadBit(0, 8)
               THEN <<(PayloadByte(0) % 8) * 16 + PayloadByte(1) \div 16>>
               ELSE <<>>
        /\ p.ground_track # <<>> => p.ground_track[1] * 360 < 360 * 128
        /\ p.time = PayloadBit(1, 8)

-----------------------------------------------------------------------------
(* Calls of the FlightStatus accessors.                                    *)

NO_ALERT_NO_SPI_AIRBORNE == 0

NO_ALERT_NO_SPI_GROUND == 1

ALERT_NO_SPI_AIRBORNE == 2

ALERT_NO_SPI_GROUND == 3

ALERT_SPI_AIRBORNE_GROUND == 4

NO_ALERT_SPI_AIRBORNE_GROUND == 5

FlightStatus_alert(self) ==
    \/ self = ALERT_NO_SPI_AIRBORNE
    \/ self = ALERT_NO_SPI_GROUND
    \/ self = ALERT_SPI_AIRBORNE_GROUND

FlightStatus_spi(self) ==
    self = ALERT_SPI_AIRBORNE_GROUND \/ self = NO_ALERT_SPI_AIRBORNE_GROUND

FlightStatus_airborne(self) ==
    \/ self = NO_ALERT_NO_SPI_GROUND
    \/ self = ALERT_NO_SPI_GROUND
    \/ self = ALERT_SPI_AIRBORNE_GROUND
    \/ self = NO_ALERT_SPI_AIRBORNE_GROUND

FlightStatus_ground(self) ==
    \/ self = NO_ALERT_NO_SPI_GROUND
    \/ self = ALERT_NO_SPI_GROUND
    \/ self = ALERT_SPI_AIRBORNE_GROUND
    \/ self = NO_ALERT_SPI_AIRBORNE_GROUND

\* a FlightStatus wraps any u8 (from_u8_unchecked); the decoder makes 0..7
FlightStatusInit ==
    /\ buffer \in {[flight_status |-> byte] : byte \in 0..255}
    /\ input = <<>>
    /\ result = [st |-> "None"]

CallAlert ==
    /\ "flight_status" \in DOMAIN buffer
    /\ Call("FlightStatus::alert", FlightStatus_alert(buffer.flight_status))

CallSpi ==
    /\ "flight_status" \in DOMAIN buffer
    /\ Call("FlightStatus::spi", FlightStatus_spi(buffer.flight_status))

CallAirborne ==
    /\ "flight_status" \in DOMAIN buffer
    /\ Call("FlightStatus::airborne", FlightStatus_airborne(buffer.flight_status))

CallGround ==
    /\ "flight_status" \in DOMAIN buffer
    /\ Call("FlightStatus::ground", FlightStatus_ground(buffer.flight_status))

FlightStatusNext == CallAlert \/ CallSpi \/ CallAirborne \/ CallGround

SpecFlightStatus == FlightStatusInit /\ [][FlightStatusNext]_<<buffer, input, result>>

\* C28: alert() is true exactly for the codes 2, 3, 4; spi() exactly for 4, 5;
\* airborne() is true for 0, 2, 4, 5 and false for 1, 3; ground() is true for
\* 1, 3, 4, 5 and false for 0, 2.
C28_FlightStatusAccessors ==
    LET code == input.flight_status IN
    /\ CalledFn("FlightStatus::alert") => (result.ret <=> code \in {2, 3, 4})
    /\ CalledFn("FlightStatus::spi") => (result.ret <=> code \in {4, 5})
    /\ CalledFn("FlightStatus::airborne") =>
        /\ code \in {0, 2, 4, 5} => result.ret
        /\ code \in {1, 3} => ~result.ret
    /\ CalledFn("FlightStatus::ground") =>
        /\ code \in {1, 3, 4, 5} => result.ret
        /\ code \in {0, 2} => ~result.ret

-----------------------------------------------------------------------------
(* Calls of the value accessors of the airborne-velocity fields.           *)

\* the result `value` of an arithmetic operation on an unsigned integer of
\* `width` bits: in range it is the value; out of range the operation panics
\* in a build with overflow checks and wraps in a build without
Arithmetic(value, width, overflow_checks) ==
    IF value \in 0..(2 ^ width - 1) THEN [st |-> "Ok", val |-> value]
    ELSE IF overflow_checks THEN [st |-> "Panic", msg |-> "arithmetic overflow"]
    ELSE [st |-> "Ok", val |-> value % (2 ^ width)]

\* the rest of an expression, applied to the value of its first operation
AndThen(r, F(_)) == IF r.st = "Ok" THEN F(r.val) ELSE r

AltitudeDifferenceValue_as_ft(self, overflow_checks) ==
    AndThen(Arithmetic(self - 1, 8, overflow_checks),
            LAMBDA v : Arithmetic(v * 25, 8, overflow_checks))

VerticalRateValue_as_ft_per_min(self, overflow_checks) ==
    AndThen(Arithmetic(self - 1, 16, overflow_checks),
            LAMBDA v : Arithmetic(v * 64, 16, overflow_checks))

Velocity_as_knots(self, supersonic, overflow_checks) ==
    AndThen(Arithmetic(self - 1, 16, overflow_checks),
            LAMBDA v : IF supersonic THEN Arithmetic(v * 4, 16, overflow_checks)
                       ELSE [st |-> "Ok", val |-> v])

\* the values AirborneVelocity::decode wraps: m = bytes[5] & 0x7F
AltitudeDifferenceValues == 1..127

\* j = (u16::from(bytes[3]) << 6) | (bytes[4] >> 2)
VerticalRateValues == 1..16383

\* e = (u16::from(bytes[0] & 0b11000000) << 8) | bytes[1] and the 10-bit g
VelocityValues ==
    (1..1023) \cup ({h * 16384 + l : h \in 0..3, l \in 0..255} \ {0})

AccessorInit ==
    /\ buffer \in {[type |-> "AltitudeDifferenceValue", code |-> c] : c \in AltitudeDifferenceValues}
            \cup {[type |-> "VerticalRateValue", code |-> c] : c \in VerticalRateValues}
            \cup {[type |-> "Velocity", code |-> c, supersonic |-> s] :
                        c \in VelocityValues, s \in BOOLEAN}
    /\ input = <<>>
    /\ result = [st |-> "None"]

CallAsFt ==
    /\ "code" \in DOMAIN buffer /\ buffer.type = "AltitudeDifferenceValue"
    /\ \E overflow_checks \in BOOLEAN :
        Call("AltitudeDifferenceValue::as_ft",
             AltitudeDifferenceValue_as_ft(buffer.code, overflow_checks))

CallAsFtPerMin ==
    /\ "code" \in DOMAIN buffer /\ buffer.type = "VerticalRateValue"
    /\ \E overflow_checks \in BOOLEAN :
        Call("VerticalRateValue::as_ft_per_min",
             VerticalRateValue_as_ft_per_min(buffer.code, overflow_checks))

CallAsKnots ==
    /\ "code" \in DOMAIN buffer /\ buffer.type = "Velocity"
    /\ \E overflow_checks \in BOOLEAN :
        Call("Velocity::as_knots",
             Velocity_as_knots(buffer.code, buffer.supersonic, overflow_checks))

AccessorNext == CallAsFt \/ CallAsFtPerMin \/ CallAsKnots

SpecAccessor == AccessorInit /\ [][AccessorNext]_<<buffer, input, result>>

\* C29: for every code of the field's width and every value the decoder
\* produces, as_ft returns (code - 1) * 25, as_ft_per_min returns
\* (code - 1) * 64 and as_knots(supersonic) returns (code - 1) * 4 when
\* supersonic and code - 1 otherwise, without overflow or underflow.
C29_AccessorsWithoutOverflow ==
    result.st = "Called" =>
        LET code == input.code
            ok(v) == [st |-> "Ok", val |-> v]
        IN
        /\ result.fn = "AltitudeDifferenceValue::as_ft" =>
            result.ret = ok((code - 1) * 25)
        /\ result.fn = "VerticalRateValue::as_ft_per_min" =>
            result.ret = ok((code - 1) * 64)
        /\ result.fn = "Velocity::as_knots" =>
            result.ret = ok(IF input.supersonic THEN (code - 1) * 4 ELSE code - 1)

-----------------------------------------------------------------------------
(* Calls of UtilityMessage.                                                *)

UtilityMessage_as_u8(self) ==
    BitOr(self.interrogator_identifier_subfield,
          Shl8(self.interrogator_reservation_type, 4))

UtilityMessageInit ==
    /\ buffer \in {[byte |-> b] : b \in 0..255}
    /\ input = <<>>
    /\ result = [st |-> "None"]

CallUtilityMessageFromU8 ==
    /\ "byte" \in DOMAIN buffer
    /\ Call("UtilityMessage::from_u8", UtilityMessage_from_u8(buffer.byte))

\* UtilityMessage::from_u8(b).map(|m| m.as_u8())
CallUtilityMessageAsU8 ==
    /\ "byte" \in DOMAIN buffer
    /\ UtilityMessage_from_u8(buffer.byte) # None
    /\ Call("UtilityMessage::as_u8",
            UtilityMessage_as_u8(UtilityMessage_from_u8(buffer.byte)[1]))

UtilityMessageNext == CallUtilityMessageFromU8 \/ CallUtilityMessageAsU8

SpecUtilityMessage == UtilityMessageInit /\ [][UtilityMessageNext]_<<buffer, input, result>>

\* C30: for every byte b in 0..=63, UtilityMessage::from_u8(b) is Some(m) with
\* interrogator_identifier_subfield = b >> 2 and interrogator_reservation_type
\* = b & 3, and m.as_u8() == b; from_u8 returns None for b >= 64.
C30_UtilityMessageRoundTrip ==
    /\ CalledFn("UtilityMessage::from_u8") =>
        IF input.byte <= 63
        THEN result.ret = <<[interrogator_identifier_subfield |-> input.byte \div 4,
                             interrogator_reservation_type |-> input.byte % 4]>>
        ELSE result.ret = <<>>
    /\ CalledFn("UtilityMessage::as_u8") => result.ret = input.byte

====
